---------------------------- MODULE Spec2Model ----------------------------
(***************************************************************************)
(* A model of github.com/nalgeon/azor/promise: the settlement state        *)
(* machine (resolve / reject / settle), the chaining engine (Then, Catch,  *)
(* Finally) and the fault interceptor (rejectOnPanic); of the typed        *)
(* wrapper Promise[T] of package azor (Run, Get, Await); and of the        *)
(* program of ExamplePromise_chain.                                        *)
(*                                                                         *)
(* Promises are numbered 1..np in order of creation.  Goroutine 0 is the   *)
(* program's main goroutine, goroutines 1..ng are the ones started by New, *)
(* Then, Finally and by `go` statements of the caller.  User code          *)
(* (executors, handlers) is a nondeterministic choice made at the moment   *)
(* the user code runs.                                                     *)
(***************************************************************************)
EXTENDS Naturals, FiniteSets, Sequences, TLC

\* Bounds of the model.
MaxPromises == 3
MaxGoroutines == 2
MaxOps == 1
MaxGets == 2
MaxInput == 4
MaxSlots == 5

VARIABLES
    np,      \* number of promises created so far
    res,     \* res[p]: the result cell of promise p (Promise.res)
    done,    \* done[p]: TRUE when the channel Promise.done is closed
    once,    \* once[p]: state of Promise.once: "new", "running", "done"
    ncall,   \* ncall[p]: how many calls of p.settle got past the Once (history)
    nwrite,  \* nwrite[p]: how many times p.res was assigned (history)
    nclose,  \* nclose[p]: how many times close(p.done) ran (history)
    ng,      \* number of goroutines started so far
    gs       \* gs[g]: the goroutine table, g = 0 is main

vars == <<np, res, done, once, ncall, nwrite, nclose, ng, gs>>


\* the promise and goroutine tables have MaxSlots entries; the calls of the
\* main goroutine stop at MaxPromises promises and MaxGoroutines goroutines
Promises == 1..MaxSlots
Goroutines == 0..MaxSlots

-----------------------------------------------------------------------------
(* Values of type `any` and `error`.                                       *)

Nil == [t |-> "nil", n |-> 0]
Val(n) == [t |-> "val", n |-> n]
Err(n) == [t |-> "err", n |-> n]
Pr(p) == [t |-> "promise", n |-> p]

\* fmt.Errorf("resolve with self: %w", errors.ErrUnsupported)
ErrSelf == [t |-> "errself", n |-> 0]

\* fmt.Errorf("panic: %v", v) for a payload v that is not an error
PanicErr(v) == [t |-> "panicerr", n |-> v.n]

\* the dynamic type tests of the type switches: case *Promise, case error
IsPromise(x) == x.t = "promise"
IsError(x) == x.t \in {"err", "errself", "panicerr"}

\* errors.Is(e, errors.ErrUnsupported)
IsErrUnsupported(e) == e.t = "errself"

PlainValues == {Val(1)}
Errors == {Err(1)}

\* result{}: the zero value of the result cell
ZeroResult == [val |-> Nil, err |-> Nil]

\* result{val: x}
ValResult(x) == [val |-> x, err |-> Nil]

\* result{err: e}
ErrResult(e) == [val |-> Nil, err |-> e]

-----------------------------------------------------------------------------
(* Goroutine records.                                                      *)
(*   kind  "none" (not started), "main", "exec" (New's goroutine),         *)
(*         "call" (a goroutine of the caller that calls p.resolve or       *)
(*         p.reject), "then", "finally", "get" (a goroutine of the caller  *)
(*         that calls Promise[T].Get)                                      *)
(*   pc    "body"     running user code that picks the next call           *)
(*         "wait"     at p.wait() of then / Finally                        *)
(*         "handler"  inside the user handler                              *)
(*         "resolve"  inside Promise.resolve, at x.wait()                  *)
(*         "close"    inside once.Do, after p.res = res                    *)
(*         "unwind"   inside once.Do, after close(p.done), where the       *)
(*                    close and the return of the call are told apart      *)
(*         "ret"      inside Then / Catch / Finally, after the go          *)
(*                    statement, before the return                         *)
(*         "then"     inside Get, before p.p.Then                          *)
(*         "select"   inside Get, at the select statement                  *)
(*         "end"      returned                                             *)
(*         "panic"    unwinding the caller's stack after a panic raised    *)
(*                    in the caller itself                                 *)
(*   p     the promise the goroutine settles (or has just derived)         *)
(*   src   the source promise of then / Finally                            *)
(*   nilF  the goroutine was started by Catch: its onFulfilled is nil;      *)
(*         for the main goroutine: its last call was given a nil function  *)
(*         (New, Run, Async) or a nil promise (Await), named in call       *)
(*   user  the handler picked by then / Finally is a function given by the *)
(*         caller, not the default that stands in for a nil handler; the   *)
(*         choice is made when the goroutine reads the handler             *)
(*   call  the call on p the goroutine is in: "resolve", "reject" or       *)
(*         "panic" (rejectOnPanic after a panic), "none" outside a call;   *)
(*         kept after the call if it settled p, and when a then / Finally  *)
(*         goroutine ends (history)                                        *)
(*   v     the argument of that call                                       *)
(*   won   that call was the one that wrote p.res                          *)
(*   ops   number of resolve / reject calls the user code has made         *)
(*   nf, nr  number of invocations of onFulfilled (onFinally) / onRejected *)
(*   arg, ret  the handler's last argument and return value (history)      *)
(*   pan   the user code panicked (history)                                *)
(*   typ   the type parameter T of the Promise[T] made by Run, of Get's    *)
(*         handlers: "val" (a type that is no error and no promise),       *)
(*         "err" (a type that implements error), "promise" (the type of    *)
(*         a promise handle); "none" outside the typed wrapper             *)
(*   ctx   the context given to Get: "background" (or nil), "live"         *)
(*         (not canceled so far), "early" (canceled while the promise was  *)
(*         pending), "late" (canceled after it settled)                    *)
(*   out   the pair Get returned                                           *)
(*   by    the goroutine whose code called the Then that started this      *)
(*         goroutine (0: the main goroutine), where that is recorded       *)
(*   late  the source was settled when that Then was called (history)      *)
(***************************************************************************)

NoGoroutine ==
    [kind |-> "none", pc |-> "end", p |-> 0, src |-> 0, nilF |-> FALSE,
     user |-> FALSE,
     call |-> "none", v |-> Nil, won |-> FALSE, ops |-> 0, nf |-> 0, nr |-> 0,
     arg |-> Nil, ret |-> Nil, pan |-> FALSE,
     typ |-> "none", ctx |-> "background", out |-> ZeroResult,
     by |-> 0, late |-> FALSE]

MainGoroutine == [NoGoroutine EXCEPT !.kind = "main", !.pc = "body"]

Init ==
    /\ np = 0
    /\ res = [p \in Promises |-> ZeroResult]
    /\ done = [p \in Promises |-> FALSE]
    /\ once = [p \in Promises |-> "new"]
    /\ ncall = [p \in Promises |-> 0]
    /\ nwrite = [p \in Promises |-> 0]
    /\ nclose = [p \in Promises |-> 0]
    /\ ng = 0
    /\ gs = [g \in Goroutines |-> IF g = 0 THEN MainGoroutine ELSE NoGoroutine]


Allocated == 1..np

\* the promise a constructor or New is still working on: the caller does
\* not hold it before the return
Unreturned ==
    IF gs[0].pc \in {"ret", "close", "unwind", "resolve"} THEN {gs[0].p} ELSE {}

\* values user code can pass to resolve or return from a handler
AnyValues == PlainValues \cup Errors \cup {Pr(q) : q \in Allocated \ Unreturned}

\* values user code can pass to reject
AnyErrors == {Nil} \cup Errors

\* payloads user code panics with: a non-error value or an error
PanicPayloads == {Val(1)} \cup Errors

-----------------------------------------------------------------------------
(* The settlement algorithm.  An action is one access to shared memory     *)
(* (the Once, the channel, a result cell) together with the goroutine's    *)
(* own computation that leads to it.                                       *)

\* a wait that returns at once, whether or not the channel is closed
WaitNever(p) == TRUE

\* x.wait() / p.wait(): <-p.done returns once the channel is closed
WaitReady(p) == done[p]

\* a Once that runs its function for every caller
OnceFreshEveryCall(p) == TRUE

\* once.Do runs its function only for the first caller
OnceFresh(p) == once[p] = "new"

\* once.Do blocks a second caller while the first is still inside
OnceBlocked(p) == once[p] = "running"

\* the goroutine when its resolve / reject call returns: then, Finally and
\* rejectOnPanic end the goroutine, user code and main go on; the call that
\* settled the promise is kept as history
Return(rec) ==
    IF rec.kind \in {"then", "finally"} \/ rec.pan
        THEN [rec EXCEPT !.pc = "end"]
        ELSE IF rec.won
                THEN [rec EXCEPT !.pc = "body"]
                ELSE [rec EXCEPT !.pc = "body", !.call = "none", !.v = Nil]

\* Promise.settle: p.once.Do(func() { p.res = res; close(p.done) }), up to
\* and including the assignment of p.res; rec is the calling goroutine
settle(g, rec, r) ==
    LET p == rec.p IN
    /\ ~OnceBlocked(p)
    /\ ncall' = [ncall EXCEPT ![p] = @ + 1]
    /\ IF OnceFresh(p)
          THEN /\ once' = [once EXCEPT ![p] = "running"]
               /\ res' = [res EXCEPT ![p] = r]
               /\ nwrite' = [nwrite EXCEPT ![p] = @ + 1]
               /\ gs' = [gs EXCEPT ![g] = [rec EXCEPT !.pc = "close", !.won = TRUE]]
          ELSE /\ gs' = [gs EXCEPT ![g] = Return(rec)]
               /\ UNCHANGED <<once, res, nwrite>>
    /\ UNCHANGED <<done, nclose>>

\* the rest of the function passed to once.Do: close(p.done)
closeDone(g) ==
    LET p == gs[g].p IN
    /\ gs[g].pc = "close"
    /\ done' = [done EXCEPT ![p] = TRUE]
    /\ nclose' = [nclose EXCEPT ![p] = @ + 1]
    /\ once' = [once EXCEPT ![p] = "done"]
    /\ gs' = [gs EXCEPT ![g] = Return(gs[g])]
    /\ UNCHANGED <<np, res, ncall, nwrite, ng>>

\* a reject that turns a nil reason into an error of its own
rejectNilAsError(g, rec, e) ==
    settle(g, rec, ErrResult(IF e = Nil THEN PanicErr(Nil) ELSE e))

\* Promise.reject
reject(g, rec, e) == settle(g, rec, ErrResult(e))

\* a resolve without the case *Promise: it stores the handle it is given
resolveNoAdoption(g, rec, value) ==
    IF IsError(value)
        THEN reject(g, rec, value)
        ELSE settle(g, rec, ValResult(value))

\* a resolve without the case error: it fulfills with the error as value
resolveNoErrorCase(g, rec, value) ==
    IF IsPromise(value)
        THEN /\ gs' = [gs EXCEPT ![g] = [rec EXCEPT !.pc = "resolve"]]
             /\ UNCHANGED <<res, done, once, ncall, nwrite, nclose>>
        ELSE settle(g, rec, ValResult(value))

\* Promise.resolve, up to x.wait() when the value is a promise
resolve(g, rec, value) ==
    IF IsPromise(value)
        THEN /\ gs' = [gs EXCEPT ![g] = [rec EXCEPT !.pc = "resolve"]]
             /\ UNCHANGED <<res, done, once, ncall, nwrite, nclose>>
        ELSE IF IsError(value)
                THEN reject(g, rec, value)
                ELSE settle(g, rec, ValResult(value))


\* an adoption that takes x's value and never looks at x's error
resolveWaitValueOnly(g) ==
    LET x == gs[g].v.n IN
    /\ gs[g].pc = "resolve"
    /\ WaitReady(x)
    /\ resolve(g, gs[g], res[x].val)
    /\ UNCHANGED <<np, ng>>

\* Promise.resolve, case *Promise, from the return of x.wait()
resolveWait(g) ==
    LET x == gs[g].v.n IN
    /\ gs[g].pc = "resolve"
    /\ WaitReady(x)
    /\ IF res[x].err # Nil
          THEN reject(g, gs[g], res[x].err)
          ELSE resolve(g, gs[g], res[x].val)
    /\ UNCHANGED <<np, ng>>

\* a rejectOnPanic without the case error: every payload is wrapped
PanicReasonWrapAll(v) == PanicErr(v)

\* Promise.rejectOnPanic with a non-nil recover(): the error to reject with
PanicReason(v) == IF IsError(v) THEN v ELSE PanicErr(v)

\* the goroutine's record when it calls resolve, reject or, from a panic,
\* rejectOnPanic with argument v
Calls(rec, call, v) ==
    [rec EXCEPT !.call = call, !.v = v, !.won = FALSE,
                !.pan = (call = "panic")]

-----------------------------------------------------------------------------
(* Goroutines started by New and by the caller.                            *)

\* the record of a goroutine started by a go statement
Spawn(kind, p, src, pc) ==
    [NoGoroutine EXCEPT !.kind = kind, !.p = p, !.src = src, !.pc = pc]


\* a promise made by then or Finally: nothing but its own goroutine holds
\* its resolve and reject functions
Derived(p) == \E g \in 1..ng : gs[g].kind \in {"then", "finally"} /\ gs[g].p = p

UserCode(g) == gs[g].kind \in {"exec", "call"} /\ gs[g].pc = "body"

\* the executor (or the caller's goroutine) calls resolve(x)
ExecResolve(g, x) ==
    /\ UserCode(g)
    /\ gs[g].ops < MaxOps
    /\ resolve(g, Calls([gs[g] EXCEPT !.ops = @ + 1], "resolve", x), x)
    /\ UNCHANGED <<np, ng>>

\* the executor (or the caller's goroutine) calls reject(e)
ExecReject(g, e) ==
    /\ UserCode(g)
    /\ gs[g].ops < MaxOps
    /\ reject(g, Calls([gs[g] EXCEPT !.ops = @ + 1], "reject", e), e)
    /\ UNCHANGED <<np, ng>>

\* the executor panics with payload v: the deferred rejectOnPanic rejects
ExecPanic(g, v) ==
    /\ UserCode(g)
    /\ gs[g].kind = "exec"
    /\ reject(g, Calls(gs[g], "panic", v), PanicReason(v))
    /\ UNCHANGED <<np, ng>>

-----------------------------------------------------------------------------
(* The chaining engine.                                                    *)

\* a then that picks onFulfilled whatever the source's outcome
PicksAlwaysFulfilled(src) == FALSE

\* the handler then picks: onRejected if p.res.err != nil, else onFulfilled
\* (TRUE: onRejected)
PicksRejected(src) == res[src].err # Nil

\* a then that calls the handler with no argument (nil)
thenWaitNoArg(g, user) ==
    LET src == gs[g].src IN
    /\ gs[g].kind = "then"
    /\ gs[g].pc = "wait"
    /\ WaitReady(src)
    /\ gs' = [gs EXCEPT
                ![g].pc = "handler",
                ![g].user = user,
                ![g].arg = Nil,
                ![g].nr = IF PicksRejected(src) /\ user THEN @ + 1 ELSE @,
                ![g].nf = IF ~PicksRejected(src) /\ user THEN @ + 1 ELSE @]
    /\ UNCHANGED <<np, res, done, once, ncall, nwrite, nclose, ng>>

\* a then that calls the handler without p.wait()
thenWaitSkipped(g, user) ==
    LET src == gs[g].src IN
    /\ gs[g].kind = "then"
    /\ gs[g].pc = "wait"
    /\ gs' = [gs EXCEPT
                ![g].pc = "handler",
                ![g].user = user,
                ![g].arg = IF PicksRejected(src) THEN res[src].err ELSE res[src].val,
                ![g].nr = IF PicksRejected(src) /\ user THEN @ + 1 ELSE @,
                ![g].nf = IF ~PicksRejected(src) /\ user THEN @ + 1 ELSE @]
    /\ UNCHANGED <<np, res, done, once, ncall, nwrite, nclose, ng>>

\* a then that takes the handler given for onRejected as onFulfilled too,
\* for a goroutine of Catch
thenWaitNoNilCheck(g, user) ==
    LET src == gs[g].src IN
    /\ gs[g].kind = "then"
    /\ gs[g].pc = "wait"
    /\ WaitReady(src)
    /\ gs' = [gs EXCEPT
                ![g].pc = "handler",
                ![g].user = user,
                ![g].arg = IF PicksRejected(src) THEN res[src].err ELSE res[src].val,
                ![g].nr = IF PicksRejected(src) /\ user THEN @ + 1 ELSE @,
                ![g].nf = IF ~PicksRejected(src) /\ user THEN @ + 1 ELSE @]
    /\ UNCHANGED <<np, res, done, once, ncall, nwrite, nclose, ng>>

\* then's executor from p.wait() to the call of the handler it picks; user:
\* that handler was given to Then, it is not the default for a nil handler
thenWait(g, user) ==
    LET src == gs[g].src IN
    /\ gs[g].kind = "then"
    /\ gs[g].pc = "wait"
    /\ WaitReady(src)
    /\ PicksRejected(src) \/ ~gs[g].nilF \/ ~user
    /\ gs' = [gs EXCEPT
                ![g].pc = "handler",
                ![g].user = user,
                ![g].arg = IF PicksRejected(src) THEN res[src].err ELSE res[src].val,
                ![g].nr = IF PicksRejected(src) /\ user THEN @ + 1 ELSE @,
                ![g].nf = IF ~PicksRejected(src) /\ user THEN @ + 1 ELSE @]
    /\ UNCHANGED <<np, res, done, once, ncall, nwrite, nclose, ng>>

\* a then that lacks the comparison val == p
SelfCheckMissing(val, p) == FALSE

\* if val == p: the handler returned the promise Then was called on
SelfCheck(val, p) == val = Pr(p)

\* a Then whose default handlers return nil instead of their argument
thenReturnNilDefault(g, val) ==
    /\ gs[g].kind = "then"
    /\ gs[g].pc = "handler"
    /\ gs[g].user \/ val = Nil
    /\ IF SelfCheck(val, gs[g].src)
          THEN reject(g, Calls([gs[g] EXCEPT !.ret = val], "reject", ErrSelf), ErrSelf)
          ELSE resolve(g, Calls([gs[g] EXCEPT !.ret = val], "resolve", val), val)
    /\ UNCHANGED <<np, ng>>

\* a then that feeds the result of onRejected into reject, with the
\* source's reason, instead of resolve
thenReturnNoRecovery(g, val) ==
    /\ gs[g].kind = "then"
    /\ gs[g].pc = "handler"
    /\ gs[g].user \/ val = gs[g].arg
    /\ IF SelfCheck(val, gs[g].src)
          THEN reject(g, Calls([gs[g] EXCEPT !.ret = val], "reject", ErrSelf), ErrSelf)
          ELSE IF PicksRejected(gs[g].src)
                  THEN reject(g, Calls([gs[g] EXCEPT !.ret = val], "resolve", val),
                              res[gs[g].src].err)
                  ELSE resolve(g, Calls([gs[g] EXCEPT !.ret = val], "resolve", val), val)
    /\ UNCHANGED <<np, ng>>

\* then's executor from the return of the handler with val; the defaults of
\* Then return their argument (onFulfilled) or their error (onRejected)
thenReturn(g, val) ==
    /\ gs[g].kind = "then"
    /\ gs[g].pc = "handler"
    /\ gs[g].user \/ val = gs[g].arg
    /\ IF SelfCheck(val, gs[g].src)
          THEN reject(g, Calls([gs[g] EXCEPT !.ret = val], "reject", ErrSelf), ErrSelf)
          ELSE resolve(g, Calls([gs[g] EXCEPT !.ret = val], "resolve", val), val)
    /\ UNCHANGED <<np, ng>>

\* a then / Finally without the deferred rejectOnPanic: the panic ends the
\* goroutine and nothing is settled
handlerPanicUncaught(g, v) ==
    /\ gs[g].kind \in {"then", "finally"}
    /\ gs[g].pc = "handler"
    /\ gs[g].user
    /\ gs' = [gs EXCEPT ![g].pc = "end", ![g].pan = TRUE]
    /\ UNCHANGED <<np, res, done, once, ncall, nwrite, nclose, ng>>

\* a rejectOnPanic of then / Finally that rejects the source promise
handlerPanicRejectsSource(g, v) ==
    /\ gs[g].kind \in {"then", "finally"}
    /\ gs[g].pc = "handler"
    /\ gs[g].user
    /\ reject(g, [Calls(gs[g], "panic", v) EXCEPT !.p = gs[g].src], PanicReason(v))
    /\ UNCHANGED <<np, ng>>

\* the handler panics with payload v: the deferred rejectOnPanic rejects
handlerPanic(g, v) ==
    /\ gs[g].kind \in {"then", "finally"}
    /\ gs[g].pc = "handler"
    /\ gs[g].user
    /\ reject(g, Calls(gs[g], "panic", v), PanicReason(v))
    /\ UNCHANGED <<np, ng>>

\* a Finally that calls onFinally without p.wait()
finallyWaitSkipped(g, user) ==
    /\ gs[g].kind = "finally"
    /\ gs[g].pc = "wait"
    /\ gs' = [gs EXCEPT ![g].pc = "handler", ![g].user = user,
                        ![g].nf = IF user THEN @ + 1 ELSE @]
    /\ UNCHANGED <<np, res, done, once, ncall, nwrite, nclose, ng>>

\* Finally's executor from p.wait() to the call of onFinally; user: onFinally
\* was given to Finally, it is not the default for a nil onFinally
finallyWait(g, user) ==
    /\ gs[g].kind = "finally"
    /\ gs[g].pc = "wait"
    /\ WaitReady(gs[g].src)
    /\ gs' = [gs EXCEPT ![g].pc = "handler", ![g].user = user,
                        ![g].nf = IF user THEN @ + 1 ELSE @]
    /\ UNCHANGED <<np, res, done, once, ncall, nwrite, nclose, ng>>

\* x.res.err read by Finally without x.wait(): a pending x has the zero
\* value, an x being settled right now may show either
RacyErr(x) == IF done[x] THEN {res[x].err} ELSE {Nil, res[x].err}

\* a Finally that resolves with what onFinally returned, as then does
finallyReturnOwnValue(g, val, e) ==
    LET src == gs[g].src
        rec == [gs[g] EXCEPT !.ret = val]
    IN
    /\ gs[g].kind = "finally"
    /\ gs[g].pc = "handler"
    /\ gs[g].user \/ val = Nil
    /\ IF IsPromise(val) THEN e \in RacyErr(val.n) ELSE e = Nil
    /\ IF IsPromise(val) /\ e # Nil THEN reject(g, Calls(rec, "reject", e), e)
       ELSE IF IsError(val) THEN reject(g, Calls(rec, "reject", val), val)
       ELSE IF res[src].err # Nil
               THEN reject(g, Calls(rec, "reject", res[src].err), res[src].err)
               ELSE IF IsPromise(val)
                       THEN resolve(g, Calls(rec, "resolve", res[src].val), res[src].val)
                       ELSE resolve(g, Calls(rec, "resolve", val), val)
    /\ UNCHANGED <<np, ng>>

\* a Finally without the case error: an error returned by onFinally is
\* dropped like any other value
finallyReturnNoErrorCase(g, val, e) ==
    LET src == gs[g].src
        rec == [gs[g] EXCEPT !.ret = val]
    IN
    /\ gs[g].kind = "finally"
    /\ gs[g].pc = "handler"
    /\ gs[g].user \/ val = Nil
    /\ IF IsPromise(val) THEN e \in RacyErr(val.n) ELSE e = Nil
    /\ IF IsPromise(val) /\ e # Nil THEN reject(g, Calls(rec, "reject", e), e)
       ELSE IF res[src].err # Nil
               THEN reject(g, Calls(rec, "reject", res[src].err), res[src].err)
               ELSE resolve(g, Calls(rec, "resolve", res[src].val), res[src].val)
    /\ UNCHANGED <<np, ng>>

\* Finally's executor from the return of onFinally, x.res.err read as e
finallyReturn(g, val, e) ==
    LET src == gs[g].src
        rec == [gs[g] EXCEPT !.ret = val]
    IN
    /\ gs[g].kind = "finally"
    /\ gs[g].pc = "handler"
    /\ gs[g].user \/ val = Nil
    /\ IF IsPromise(val) THEN e \in RacyErr(val.n) ELSE e = Nil
    /\ IF IsPromise(val) /\ e # Nil THEN reject(g, Calls(rec, "reject", e), e)
       ELSE IF IsError(val) THEN reject(g, Calls(rec, "reject", val), val)
       ELSE IF res[src].err # Nil
               THEN reject(g, Calls(rec, "reject", res[src].err), res[src].err)
               ELSE resolve(g, Calls(rec, "resolve", res[src].val), res[src].val)
    /\ UNCHANGED <<np, ng>>

-----------------------------------------------------------------------------
(* The main goroutine: the calls of the package's API.                     *)

AtBody == gs[0].pc = "body"

\* newPromise()
newPromise ==
    /\ AtBody
    /\ np < MaxPromises
    /\ np' = np + 1
    /\ UNCHANGED <<res, done, once, ncall, nwrite, nclose, ng, gs>>

\* New(fn), Then / Catch (through then) and Finally, up to the go statement
NewGo(kind, src, pc) ==
    /\ AtBody
    /\ np < MaxPromises
    /\ ng < MaxGoroutines
    /\ np' = np + 1
    /\ ng' = ng + 1
    /\ gs' = [gs EXCEPT ![ng + 1] = Spawn(kind, np + 1, src, pc),
                        ![0] = [MainGoroutine EXCEPT !.pc = "ret", !.p = np + 1]]
    /\ UNCHANGED <<res, done, once, ncall, nwrite, nclose>>

\* New(fn) with a non-nil fn
New == NewGo("exec", 0, "body")

\* p.Then(onFulfilled, onRejected...): return p.then(...)
Then(p) == NewGo("then", p, "wait")

\* p.Catch(onRejected): return p.Then(nil, onRejected)
Catch(p) ==
    /\ AtBody
    /\ np < MaxPromises
    /\ ng < MaxGoroutines
    /\ np' = np + 1
    /\ ng' = ng + 1
    /\ gs' = [gs EXCEPT
                ![ng + 1] = [Spawn("then", np + 1, p, "wait") EXCEPT !.nilF = TRUE],
                ![0] = [MainGoroutine EXCEPT !.pc = "ret", !.p = np + 1]]
    /\ UNCHANGED <<res, done, once, ncall, nwrite, nclose>>

\* p.Finally(onFinally)
Finally(p) == NewGo("finally", p, "wait")

\* a Then / Finally that returns only once its source is settled, as it
\* would if it ran its executor itself instead of handing it to New
NewReturnAfterSource ==
    /\ gs[0].pc = "ret"
    /\ \A g \in 1..ng :
          gs[g].p = gs[0].p /\ gs[g].kind \in {"then", "finally"}
              => done[gs[g].src]
    /\ gs' = [gs EXCEPT ![0].pc = "body", ![0].p = 0]
    /\ UNCHANGED <<np, res, done, once, ncall, nwrite, nclose, ng>>

\* return p at the end of New: Then, Catch and Finally return to the caller
NewReturn ==
    /\ gs[0].pc = "ret"
    /\ gs' = [gs EXCEPT ![0].pc = "body", ![0].p = 0]
    /\ UNCHANGED <<np, res, done, once, ncall, nwrite, nclose, ng>>

\* go func() { p.resolve(..); p.reject(..) }() on a promise whose resolve
\* and reject the caller holds
Go(p) ==
    /\ AtBody
    /\ ng < MaxGoroutines
    /\ ~Derived(p)
    /\ ng' = ng + 1
    /\ gs' = [gs EXCEPT ![ng + 1] = Spawn("call", p, 0, "body")]
    /\ UNCHANGED <<np, res, done, once, ncall, nwrite, nclose>>


\* Resolve(value): p := newPromise(); p.resolve(value)
Resolve(value) ==
    /\ AtBody
    /\ np < MaxPromises
    /\ np' = np + 1
    /\ resolve(0, Calls([gs[0] EXCEPT !.p = np + 1], "resolve", value), value)
    /\ UNCHANGED ng

\* Reject(err): p := newPromise(); p.reject(err)
Reject(err) ==
    /\ AtBody
    /\ np < MaxPromises
    /\ np' = np + 1
    /\ reject(0, Calls([gs[0] EXCEPT !.p = np + 1], "reject", err), err)
    /\ UNCHANGED ng

-----------------------------------------------------------------------------
(* The specification.                                                      *)

\* a step of the package's own code in goroutine g, or the return of a handler
Run(g) ==
    \/ resolveWait(g)
    \/ closeDone(g)
    \/ \E user \in BOOLEAN : thenWait(g, user)
    \/ \E user \in BOOLEAN : finallyWait(g, user)
    \/ \E val \in AnyValues \cup {Nil, gs[g].arg} : thenReturn(g, val)
    \/ \E val \in AnyValues \cup {Nil} : \E e \in {Nil} \cup Errors :
            finallyReturn(g, val, e)
    \/ \E v \in PanicPayloads : handlerPanic(g, v)

\* a step of an executor or of a goroutine of the caller
User(g) ==
    \/ \E x \in AnyValues : ExecResolve(g, x)
    \/ \E e \in AnyErrors : ExecReject(g, e)
    \/ \E v \in PanicPayloads : ExecPanic(g, v)

\* a call made by the main goroutine
Main ==
    \/ newPromise
    \/ New
    \/ \E p \in Allocated : Then(p)
    \/ \E p \in Allocated : Catch(p)
    \/ \E p \in Allocated : Finally(p)
    \/ NewReturn
    \/ \E p \in Allocated : Go(p)
    \/ \E x \in AnyValues : Resolve(x)
    \/ \E e \in AnyErrors : Reject(e)

Next ==
    \/ Main
    \/ \E g \in Goroutines : Run(g)
    \/ \E g \in Goroutines : User(g)

Spec == Init /\ [][Next]_vars

\* the Go scheduler runs every runnable goroutine; handlers return or panic
FairSpec == Spec /\ \A g \in Goroutines : WF_vars(Run(g))

\* a program that only chains: its sources come from Resolve, Reject and
\* newPromise, every goroutine is one of Then, Catch or Finally
DerivedNext ==
    \/ newPromise
    \/ \E x \in AnyValues : Resolve(x)
    \/ \E e \in AnyErrors : Reject(e)
    \/ \E p \in Allocated : Then(p)
    \/ \E p \in Allocated : Catch(p)
    \/ \E p \in Allocated : Finally(p)
    \/ NewReturn
    \/ \E g \in 0..MaxGoroutines : Run(g)

DerivedSpec == Init /\ [][DerivedNext]_vars

\* the Go scheduler runs every runnable goroutine; handlers return or panic
DerivedFairSpec == DerivedSpec /\ \A g \in 0..MaxGoroutines : WF_vars(Run(g))

\* a program that makes two promises with New and chains one Then or
\* Finally on either: the executors (goroutines 1 and 2) resolve or reject
\* with anything, each other's promise included
CycleCall(kind, src, pc) ==
    /\ AtBody
    /\ np' = np + 1
    /\ ng' = ng + 1
    /\ gs' = [gs EXCEPT ![ng + 1] = Spawn(kind, np + 1, src, pc),
                        ![0] = [MainGoroutine EXCEPT !.pc = "ret", !.p = np + 1]]
    /\ UNCHANGED <<res, done, once, ncall, nwrite, nclose>>

CycleNew == np < 2 /\ CycleCall("exec", 0, "body")

CycleThen(p) == np = 2 /\ CycleCall("then", p, "wait")

CycleFinally(p) == np = 2 /\ CycleCall("finally", p, "wait")

CycleNext ==
    \/ CycleNew
    \/ \E p \in 1..2 : CycleThen(p)
    \/ \E p \in 1..2 : CycleFinally(p)
    \/ NewReturn
    \/ \E g \in 1..3 : Run(g)
    \/ \E g \in 1..3 : User(g)

CycleSpec == Init /\ [][CycleNext]_vars

-----------------------------------------------------------------------------
(* The execution stack of the callers: programs that register handlers     *)
(* before and after a settlement and from inside a running handler.  The   *)
(* function given to once.Do is followed statement by statement, so that   *)
(* close(p.done) and the return of resolve / reject to its caller are two  *)
(* steps, as they are for the goroutines that wait on p.done.              *)

\* close(p.done) inside once.Do: the waiting goroutines become runnable,
\* the caller is still inside settle
closeChan(g) ==
    LET p == gs[g].p IN
    /\ gs[g].pc = "close"
    /\ done' = [done EXCEPT ![p] = TRUE]
    /\ nclose' = [nclose EXCEPT ![p] = @ + 1]
    /\ gs' = [gs EXCEPT ![g].pc = "unwind"]
    /\ UNCHANGED <<np, res, once, ncall, nwrite, ng>>

\* once.Do, settle and resolve / reject return to the caller
unwind(g) ==
    /\ gs[g].pc = "unwind"
    /\ once' = [once EXCEPT ![gs[g].p] = "done"]
    /\ gs' = [gs EXCEPT ![g] = Return(gs[g])]
    /\ UNCHANGED <<np, res, done, ncall, nwrite, nclose, ng>>

\* the code of goroutine g is at a point where it can call p.Then: the main
\* goroutine between two calls, a handler given to Then while it runs
CanCallThen(g) ==
    \/ g = 0 /\ AtBody
    \/ g # 0 /\ gs[g].kind = "then" /\ gs[g].pc = "handler" /\ gs[g].user

\* p.Then(onFulfilled, onRejected) called by goroutine g, up to New's go
\* statement for the main goroutine, to Then's return for a handler
StackThen(g, p) ==
    /\ CanCallThen(g)
    /\ np < MaxPromises
    /\ ng < MaxGoroutines
    /\ np' = np + 1
    /\ ng' = ng + 1
    /\ gs' = [gs EXCEPT
                ![ng + 1] = [Spawn("then", np + 1, p, "wait") EXCEPT
                                !.by = g, !.late = done[p]],
                ![g] = IF g = 0
                          THEN [MainGoroutine EXCEPT !.pc = "ret", !.p = np + 1]
                          ELSE @]
    /\ UNCHANGED <<res, done, once, ncall, nwrite, nclose>>

\* a step of goroutine g: the package's code, an executor's or a caller's
\* resolve / reject, a handler that registers a handler, returns or panics
StackStep(g) ==
    \/ closeChan(g)
    \/ unwind(g)
    \/ \E user \in BOOLEAN : thenWait(g, user)
    \/ \E val \in PlainValues \cup {Nil, gs[g].arg} : thenReturn(g, val)
    \/ \E v \in PanicPayloads : handlerPanic(g, v)
    \/ \E x \in PlainValues : ExecResolve(g, x)
    \/ \E e \in AnyErrors : ExecReject(g, e)

StackNext ==
    \/ newPromise
    \/ \E x \in PlainValues : Resolve(x)
    \/ \E e \in Errors : Reject(e)
    \/ NewReturn
    \/ \E p \in Allocated : Go(p)
    \/ \E g \in Goroutines : \E p \in Allocated \ Unreturned : StackThen(g, p)
    \/ \E g \in Goroutines : StackStep(g)

StackSpec == Init /\ [][StackNext]_vars

-----------------------------------------------------------------------------
(* The typed wrapper: package azor's Promise[T] with Run, Get and Await.   *)
(* Goroutine 1 is the executor of the promise Run makes; the caller calls  *)
(* Get (or Await, which calls Get) from goroutines of its own.             *)

\* var zero T
Zero == Nil

\* ctx.Err() of a canceled context
CtxErr == [t |-> "ctxerr", n |-> 0]

\* the payload of the panic in Get's onFulfilled: fmt.Sprintf("azor: got
\* value type %T, want %T", value, pval)
TypeMismatch == [t |-> "val", n |-> 0]

\* the type arguments of Run[T]
Types == {"val", "err", "promise"}

\* val, ok := value.(T)
IsT(value, T) == value.t = T

\* x := promise.Resolve(v), made by the caller for fn to return
Inner(v) ==
    /\ np = 0
    /\ Resolve(v)

\* Run(fn) for a non-nil fn of type func() (T, error): promise.New(...), up
\* to the go statement
AzorRun(T) ==
    /\ AtBody
    /\ ng = 0
    /\ T = "promise" => np = 1
    /\ np' = np + 1
    /\ ng' = 1
    /\ gs' = [gs EXCEPT
                ![1] = [Spawn("exec", np + 1, 0, "body") EXCEPT !.typ = T],
                ![0] = [MainGoroutine EXCEPT !.pc = "ret", !.p = np + 1]]
    /\ UNCHANGED <<res, done, once, ncall, nwrite, nclose>>

\* what fn can return: a value of type T with a nil error, or an error
FnResults(g) ==
    {<<v, Nil>> : v \in {x \in PlainValues \cup Errors \cup
                                {Pr(q) : q \in 1..(gs[g].p - 1)} :
                            IsT(x, gs[g].typ)}}
        \cup {<<Zero, e>> : e \in Errors}

\* Run's executor: val, err := fn(); if err != nil { reject(err); return };
\* resolve(val)
FnReturn(g, val, err) ==
    /\ gs[g].typ # "none"
    /\ gs[g].ops = 0
    /\ IF err # Nil
          THEN ExecReject(g, err)
          ELSE ExecResolve(g, val)

\* fn panics with payload v
FnPanic(g, v) ==
    /\ gs[g].typ # "none"
    /\ gs[g].ops = 0
    /\ ExecPanic(g, v)

Getters == {g \in 1..ng : gs[g].kind = "get"}

\* go p.Get(ctx), or go Await(ctx, p), by the caller; a nil ctx is
\* context.Background()
GetGo(ctx) ==
    /\ AtBody
    /\ ng >= 1
    /\ ng < MaxSlots
    /\ Cardinality(Getters) < MaxGets
    /\ ng' = ng + 1
    /\ gs' = [gs EXCEPT
                ![ng + 1] = [Spawn("get", 0, gs[1].p, "then") EXCEPT
                                !.ctx = ctx, !.typ = gs[1].typ]]
    /\ UNCHANGED <<np, res, done, once, ncall, nwrite, nclose>>

\* cancel() by the owner of the context of g's Get
Cancel(g) ==
    /\ gs[g].kind = "get"
    /\ gs[g].pc # "end"
    /\ gs[g].ctx = "live"
    /\ gs' = [gs EXCEPT ![g].ctx = IF done[gs[g].src] THEN "late" ELSE "early"]
    /\ UNCHANGED <<np, res, done, once, ncall, nwrite, nclose, ng>>

\* Get: np := p.p.Then(onFulfilled, onRejected)
GetThen(g) ==
    /\ gs[g].kind = "get"
    /\ gs[g].pc = "then"
    /\ np < MaxSlots
    /\ ng < MaxSlots
    /\ np' = np + 1
    /\ ng' = ng + 1
    /\ gs' = [gs EXCEPT
                ![ng + 1] = [Spawn("then", np + 1, gs[g].src, "wait") EXCEPT
                                !.typ = gs[g].typ],
                ![g].pc = "select",
                ![g].p = np + 1]
    /\ UNCHANGED <<res, done, once, ncall, nwrite, nclose>>

\* then calls the handler Get registered: both handlers are functions
GetHandlerCall(h) ==
    /\ gs[h].typ # "none"
    /\ thenWait(h, TRUE)

\* the handlers of Get: onFulfilled stores the value in pval and returns
\* nil, or panics if the value is not a T; onRejected stores the error in
\* perr and returns nil
GetHandler(h) ==
    /\ gs[h].kind = "then"
    /\ gs[h].typ # "none"
    /\ IF PicksRejected(gs[h].src) \/ IsT(gs[h].arg, gs[h].typ)
          THEN thenReturn(h, Nil)
          ELSE handlerPanic(h, TypeMismatch)

\* the goroutine of the Then that g's Get called
HandlerOf(g) == CHOOSE h \in 1..ng : gs[h].kind = "then" /\ gs[h].p = gs[g].p

\* Get's variables pval and perr as the handlers left them
pval(g) ==
    LET h == HandlerOf(g) IN
    IF gs[h].nf = 1 /\ ~gs[h].pan THEN gs[h].arg ELSE Zero

perr(g) ==
    LET h == HandlerOf(g) IN
    IF gs[h].nr = 1 THEN gs[h].arg ELSE Nil

\* a Get that cancels the computation when its context is canceled
GetCanceledSettles(g) ==
    LET p == gs[g].src IN
    /\ gs[g].kind = "get"
    /\ gs[g].pc = "select"
    /\ gs[g].ctx \in {"early", "late"}
    /\ gs' = [gs EXCEPT ![g].pc = "end", ![g].call = "ctx.Done",
                        ![g].out = [val |-> Zero, err |-> CtxErr]]
    /\ IF once[p] = "new"
          THEN /\ res' = [res EXCEPT ![p] = ErrResult(CtxErr)]
               /\ done' = [done EXCEPT ![p] = TRUE]
               /\ once' = [once EXCEPT ![p] = "done"]
               /\ ncall' = [ncall EXCEPT ![p] = @ + 1]
               /\ nwrite' = [nwrite EXCEPT ![p] = @ + 1]
               /\ nclose' = [nclose EXCEPT ![p] = @ + 1]
          ELSE UNCHANGED <<res, done, once, ncall, nwrite, nclose>>
    /\ UNCHANGED <<np, ng>>

\* Get's select, case <-ctx.Done(): return zero, ctx.Err()
GetCanceled(g) ==
    /\ gs[g].kind = "get"
    /\ gs[g].pc = "select"
    /\ gs[g].ctx \in {"early", "late"}
    /\ gs' = [gs EXCEPT ![g].pc = "end", ![g].call = "ctx.Done",
                        ![g].out = [val |-> Zero, err |-> CtxErr]]
    /\ UNCHANGED <<np, res, done, once, ncall, nwrite, nclose, ng>>

\* Get's select, case <-np.Done(): return pval, perr
GetDone(g) ==
    /\ gs[g].kind = "get"
    /\ gs[g].pc = "select"
    /\ WaitReady(gs[g].p)
    /\ gs' = [gs EXCEPT ![g].pc = "end", ![g].call = "np.Done",
                        ![g].out = [val |-> pval(g), err |-> perr(g)]]
    /\ UNCHANGED <<np, res, done, once, ncall, nwrite, nclose, ng>>

\* a step of goroutine g in a program that uses the typed wrapper
TypedStep(g) ==
    \/ closeDone(g)
    \/ resolveWait(g)
    \/ \E r \in FnResults(g) : FnReturn(g, r[1], r[2])
    \/ \E v \in PanicPayloads : FnPanic(g, v)
    \/ Cancel(g)
    \/ GetThen(g)
    \/ GetHandlerCall(g)
    \/ GetHandler(g)
    \/ GetCanceled(g)
    \/ GetDone(g)

TypedNext ==
    \/ \E v \in PlainValues \cup Errors : Inner(v)
    \/ \E T \in Types : AzorRun(T)
    \/ NewReturn
    \/ \E ctx \in {"background", "live"} : GetGo(ctx)
    \/ \E g \in Goroutines : TypedStep(g)

\* a program that makes one typed promise with Run and calls Get on it
TypedSpec == Init /\ [][TypedNext]_vars

-----------------------------------------------------------------------------
(* Calls with a nil argument: New(nil), Run(nil), Async(nil) and           *)
(* Await(ctx, nil) by the main goroutine of a program that uses the typed  *)
(* wrapper (the Get calls of such a program are left to TypedSpec).        *)

NilAPIs == {"New", "Run", "Async", "Await"}

\* a call that lacks the nil check: New makes the promise and starts the
\* goroutine that calls the nil function, and returns
NilCallUnchecked(api) ==
    /\ AtBody
    /\ np < MaxSlots
    /\ ng < MaxSlots
    /\ np' = np + 1
    /\ ng' = ng + 1
    /\ gs' = [gs EXCEPT
                ![ng + 1] = [Spawn("exec", np + 1, 0, "body") EXCEPT !.nilF = TRUE],
                ![0] = [MainGoroutine EXCEPT !.pc = "ret", !.p = np + 1,
                                             !.nilF = TRUE, !.call = api]]
    /\ UNCHANGED <<res, done, once, ncall, nwrite, nclose>>

\* if fn == nil { panic(..) } of New, Run and Async, if p == nil { panic(..) }
\* of Await: the first statement of the call
NilCall(api) ==
    /\ AtBody
    /\ gs' = [gs EXCEPT
                ![0] = [MainGoroutine EXCEPT !.pc = "panic", !.pan = TRUE,
                                             !.nilF = TRUE, !.call = api]]
    /\ UNCHANGED <<np, res, done, once, ncall, nwrite, nclose, ng>>

\* a step of the executor of a promise made by Run
NilStep(g) ==
    \/ closeDone(g)
    \/ resolveWait(g)
    \/ \E r \in FnResults(g) : FnReturn(g, r[1], r[2])
    \/ \E v \in PanicPayloads : FnPanic(g, v)

\* a program that makes a promise with Run and then passes nil to one of
\* the four functions
NilNext ==
    \/ \E v \in PlainValues \cup Errors : Inner(v)
    \/ \E T \in Types : AzorRun(T)
    \/ NewReturn
    \/ \E api \in NilAPIs : NilCall(api)
    \/ \E g \in Goroutines : NilStep(g)

NilSpec == Init /\ [][NilNext]_vars

-----------------------------------------------------------------------------
(* The chain of ExamplePromise_chain:                                      *)
(*   p := promise.Resolve(n).Then(f).Catch(c).Finally(d); <-p.Done()       *)
(* Promise 1 is Resolve(n); goroutines 1, 2, 3 are those of Then, Catch    *)
(* and Finally, which settle promises 2, 3 and 4.                          *)

ChainInputs == {Val(n) : n \in 1..MaxInput}

Odd(value) == value.n % 2 # 0

\* f: return an error if the value is odd, else print and return the value
ChainOnFulfilled(value) == IF Odd(value) THEN Err(value.n) ELSE value

\* c: print the error, return nil
ChainOnRejected(err) == Nil

\* d: print "done!", return nil
ChainOnFinally == Nil

\* promise.Resolve(n)
ChainResolve(n) ==
    /\ np = 0
    /\ Resolve(n)

\* a chained call on the promise the previous call returned
ChainCall(kind, nilF) ==
    /\ AtBody
    /\ np' = np + 1
    /\ ng' = ng + 1
    /\ gs' = [gs EXCEPT
                ![ng + 1] = [Spawn(kind, np + 1, np, "wait") EXCEPT !.nilF = nilF],
                ![0] = [MainGoroutine EXCEPT !.pc = "ret", !.p = np + 1]]
    /\ UNCHANGED <<res, done, once, ncall, nwrite, nclose>>

\* .Then(f)
ChainThen == np = 1 /\ ChainCall("then", FALSE)

\* .Catch(c)
ChainCatch == np = 2 /\ ChainCall("then", TRUE)

\* .Finally(d)
ChainFinally == np = 3 /\ ChainCall("finally", FALSE)

\* <-p.Done()
ChainDone ==
    /\ AtBody
    /\ np = 4
    /\ WaitReady(4)
    /\ gs' = [gs EXCEPT ![0].pc = "end"]
    /\ UNCHANGED <<np, res, done, once, ncall, nwrite, nclose, ng>>

\* the goroutine gets past p.wait() and calls the handler: Then(f) has no
\* onRejected, Catch(c) no onFulfilled
ChainHandlerCall(g) ==
    \/ thenWait(g, IF gs[g].nilF THEN PicksRejected(gs[g].src)
                                 ELSE ~PicksRejected(gs[g].src))
    \/ finallyWait(g, TRUE)

\* the handler returns
ChainHandler(g) ==
    \/ thenReturn(g, IF ~gs[g].user THEN gs[g].arg
                     ELSE IF gs[g].nilF THEN ChainOnRejected(gs[g].arg)
                     ELSE ChainOnFulfilled(gs[g].arg))
    \/ finallyReturn(g, ChainOnFinally, Nil)

ChainNext ==
    \/ \E n \in ChainInputs : ChainResolve(n)
    \/ ChainThen
    \/ ChainCatch
    \/ ChainFinally
    \/ NewReturn
    \/ ChainDone
    \/ \E g \in Goroutines : closeDone(g)
    \/ \E g \in Goroutines : ChainHandlerCall(g)
    \/ \E g \in Goroutines : ChainHandler(g)

ChainSpec == Init /\ [][ChainNext]_vars

\* the pair Get returns on cancellation
CtxPair == [val |-> Zero, err |-> CtxErr]

\* the pair Get's handlers make of the settled outcome of p: the error, or
\* the value if it is a T
GetPair(p, T) ==
    [val |-> IF res[p].err = Nil /\ IsT(res[p].val, T) THEN res[p].val ELSE Zero,
     err |-> res[p].err]

\* goroutine g's Get has returned from this case of its select
Returned(g, case) ==
    gs[g].kind = "get" /\ gs[g].pc = "end" /\ gs[g].call = case

\* goroutine g is inside resolve, waiting for a promise that is not settled
AdoptsPending(g) == gs[g].pc = "resolve" /\ ~done[gs[g].v.n]

\* the executors g1 and g2 are each inside resolve with the other's promise
Cycle(g1, g2) ==
    /\ g1 # g2
    /\ gs[g1].kind = "exec" /\ gs[g1].pc = "resolve"
    /\ gs[g2].kind = "exec" /\ gs[g2].pc = "resolve"
    /\ gs[g1].v = Pr(gs[g2].p)
    /\ gs[g2].v = Pr(gs[g1].p)

\* nothing has called settle on the promises of g1 and g2
Untouched(g1, g2) == ncall[gs[g1].p] = 0 /\ ncall[gs[g2].p] = 0

\* no other goroutine holds resolve or reject of the promises of g1 and g2
NoOtherHolder(g1, g2) ==
    \A h \in Goroutines \ {g1, g2} :
        gs[h].kind \in {"exec", "call"} => gs[h].p \notin {gs[g1].p, gs[g2].p}

\* everything the model keeps of promise q
PromiseState(q) == <<res[q], done[q], once[q], ncall[q], nwrite[q], nclose[q]>>

-----------------------------------------------------------------------------
(* Properties.                                                             *)

\* goroutine g is in, or has settled its promise by, a call of this kind
InCall(g, call) == gs[g].kind # "none" /\ gs[g].call = call

\* the then goroutines started by Then / Catch calls on promise p
Continuations(p) == {h \in 1..ng : gs[h].kind = "then" /\ gs[h].src = p}


\* C1: of all resolve, reject and panic-capture calls on a promise, from
\* any goroutines, exactly the first that reaches settle writes the result
\* and closes done; the later ones change nothing, and a result once
\* written never changes.
C1_SettleOnce ==
    [][\A p \in Promises :
          /\ nwrite'[p] <= 1
          /\ nclose'[p] <= 1
          /\ nclose'[p] <= nwrite'[p]
          /\ (ncall'[p] >= 1 => nwrite'[p] = 1)
          /\ (nwrite[p] = 1 => res'[p] = res[p])
          /\ (done[p] => done'[p])
          /\ (done'[p] <=> nclose'[p] = 1)
          /\ (ncall[p] >= 1 /\ ncall'[p] > ncall[p]
                => res'[p] = res[p] /\ nclose'[p] = nclose[p]
                   /\ once'[p] = once[p])]_vars

\* C1 happens: a settled promise on which a later call was made and ignored
C1_Witness ==
    \E p \in Promises : done[p] /\ ncall[p] >= 2 /\ nwrite[p] = 1

\* goroutine g called the resolve of its promise with that promise itself
SelfResolve(g) == InCall(g, "resolve") /\ gs[g].v = Pr(gs[g].p)

\* C2: when a promise's resolve is called with the promise itself (by its
\* executor, or by then when the handler returns the promise this Then call
\* returned), the call does not wait forever, and if it is the call that
\* settles the promise, the promise is rejected with an error wrapping
\* errors.ErrUnsupported.
C2_SelfResolveRejected ==
    \A g \in Goroutines :
        SelfResolve(g)
            ~> (/\ gs[g].pc # "resolve"
                /\ (gs[g].won => IsErrUnsupported(res[gs[g].p].err)))

\* the handler of then goroutine g has returned the source promise
ReturnedSource(g) ==
    gs[g].kind = "then" /\ gs[g].call # "none" /\ gs[g].ret = Pr(gs[g].src)

\* C3: when the handler run by P.Then returns P itself, the derived promise
\* is rejected with an error wrapping errors.ErrUnsupported, without waiting
\* on anything, and no onFulfilled continuation of it is ever called.
C3_SourceReturnedRejects ==
    \A g \in 1..ng :
        ReturnedSource(g) =>
            LET d == gs[g].p IN
            /\ done[gs[g].src]
            /\ gs[g].pc \in {"close", "end"}
            /\ (gs[g].pc = "close" => ENABLED closeDone(g))
            /\ (gs[g].pc = "end" => done[d])
            /\ gs[g].won
            /\ res[d].val = Nil
            /\ IsErrUnsupported(res[d].err)
            /\ \A h \in Continuations(d) :
                  /\ gs[h].nf = 0
                  /\ (gs[h].nr = 1 => IsErrUnsupported(gs[h].arg))

\* C3 happens: the handler returned the source, the derived promise is
\* settled and its onRejected continuation got the error
C3_Witness ==
    \E g, h \in 1..ng :
        /\ ReturnedSource(g)
        /\ gs[g].pc = "end"
        /\ h \in Continuations(gs[g].p)
        /\ gs[h].nr = 1
        /\ IsErrUnsupported(gs[h].arg)

\* C4: a promise resolved with a promise (through Resolve, an executor's
\* resolve or a handler's return value), to any depth, gets the final plain
\* outcome of the innermost promise: no result cell ever holds a promise, a
\* resolve call that settles its promise does so with the result of the
\* promise it was given, and the call goes on once that promise is settled.
C4_Flattening ==
    /\ \A p \in Promises : ~IsPromise(res[p].val) /\ ~IsPromise(res[p].err)
    /\ \A g \in Goroutines :
          InCall(g, "resolve") /\ IsPromise(gs[g].v) =>
              LET x == gs[g].v.n IN
              /\ (gs[g].won => done[x] /\ res[gs[g].p] = res[x])
              /\ (gs[g].pc = "resolve" /\ done[x] /\ ~OnceBlocked(gs[g].p)
                    => ENABLED resolveWait(g))

\* C4 happens: a promise fulfilled with the plain value of a promise that
\* was itself resolved with a promise
C4_Witness ==
    \E g, h \in Goroutines :
        /\ InCall(g, "resolve") /\ gs[g].won /\ gs[g].v = Pr(gs[h].p)
        /\ InCall(h, "resolve") /\ gs[h].won /\ IsPromise(gs[h].v)
        /\ gs[h].v # Pr(gs[g].p)
        /\ done[gs[g].p]
        /\ res[gs[g].p] = ValResult(Val(1))

C6_AdoptsAnyReturnedPromise ==
    \A g \in 1..ng :
        gs[g].kind = "then" /\ IsPromise(gs[g].ret) /\ gs[g].pc = "end"
            => res[gs[g].p] = res[gs[g].ret.n]

\* C6, amended: when a Then handler returns a promise x other than the
\* promise Then was called on, the derived promise adopts x's outcome: it
\* stays pending until x is settled and is then settled with x's result
\* (fulfilled with x's value or rejected with x's reason).
C6_AdoptsReturnedPromise ==
    \A g \in 1..ng :
        (/\ gs[g].kind = "then"
         /\ gs[g].call # "none"
         /\ IsPromise(gs[g].ret)
         /\ gs[g].ret # Pr(gs[g].src)) =>
            LET x == gs[g].ret.n
                d == gs[g].p
            IN
            /\ gs[g].call = "resolve"
            /\ gs[g].v = gs[g].ret
            /\ gs[g].pc \in {"resolve", "close", "end"}
            /\ (gs[g].pc = "resolve" =>
                  /\ ~done[d]
                  /\ (done[x] => ENABLED resolveWait(g)))
            /\ (gs[g].pc \in {"close", "end"} =>
                  gs[g].won /\ done[x] /\ res[d] = res[x])
            /\ (gs[g].pc = "end" => done[d])

\* C6 happens: a handler returned a promise other than the source, that
\* promise is rejected and so is the derived promise
C6_Witness ==
    \E g \in 1..ng :
        /\ gs[g].kind = "then"
        /\ gs[g].pc = "end"
        /\ IsPromise(gs[g].ret)
        /\ gs[g].ret # Pr(gs[g].src)
        /\ res[gs[g].ret.n].err = Err(1)
        /\ res[gs[g].p].err = Err(1)

\* C7: a resolve call with an error E that settles its promise rejects it
\* with reason E and leaves the value nil; the promise's onRejected
\* continuations are called with E and its onFulfilled ones are not called.
C7_ResolveWithErrorRejects ==
    \A g \in Goroutines :
        InCall(g, "resolve") /\ IsError(gs[g].v) /\ gs[g].won =>
            /\ res[gs[g].p] = ErrResult(gs[g].v)
            /\ res[gs[g].p].val = Nil
            /\ \A h \in Continuations(gs[g].p) :
                  /\ gs[h].nf = 0
                  /\ (gs[h].pc # "wait" => gs[h].arg = gs[g].v)
                  /\ (gs[h].pc # "wait" /\ gs[h].user => gs[h].nr = 1)

\* C7 happens: an executor's resolve(E) settled the promise and an
\* onRejected continuation was called with E
C7_Witness ==
    \E g, h \in 1..ng :
        /\ gs[g].kind = "exec"
        /\ InCall(g, "resolve") /\ IsError(gs[g].v) /\ gs[g].won
        /\ h \in Continuations(gs[g].p)
        /\ gs[h].nr = 1
        /\ gs[h].arg = gs[g].v

\* C8: Then, Catch and Finally can be called on any promise, settled or
\* not, and return the derived promise without waiting for the source.
C8_ChainingReturns ==
    /\ gs[0].pc = "ret" => ENABLED NewReturn
    /\ AtBody /\ np < MaxPromises /\ ng < MaxGoroutines =>
          \A p \in Allocated : ENABLED Then(p) /\ ENABLED Finally(p)

\* C8 happens: Then and Finally have returned on a source that is pending
\* and that no goroutine will ever settle
C8_Witness ==
    /\ AtBody
    /\ ng = MaxGoroutines
    /\ \E g, h \in 1..ng :
          /\ gs[g].kind = "then" /\ gs[h].kind = "finally"
          /\ gs[g].src = gs[h].src
          /\ ~done[gs[g].src]
          /\ gs[g].pc = "wait" /\ gs[h].pc = "wait"

\* C9: a handler given to Then or Catch is not invoked while the source is
\* pending; a promise nobody settled has its done channel open.
C9_NoHandlerWhilePending ==
    /\ \A g \in 1..ng :
          gs[g].kind = "then" /\ ~done[gs[g].src] =>
              gs[g].pc = "wait" /\ gs[g].nf = 0 /\ gs[g].nr = 0
    /\ \A p \in Promises : ncall[p] = 0 => ~done[p] /\ nclose[p] = 0

\* C9 happens: a handler was invoked on a source that a goroutine settled
C9_Witness ==
    \E g, h \in 1..ng :
        /\ gs[g].kind = "then"
        /\ gs[g].nf + gs[g].nr = 1
        /\ gs[h].kind \in {"exec", "call"}
        /\ gs[h].p = gs[g].src
        /\ gs[h].won

\* C10: a Then call invokes at most one of its two handlers, at most once,
\* however many calls are made on the source: onFulfilled with the value
\* only if the source is fulfilled, onRejected with the reason only if the
\* source is rejected.
C10_OneHandlerOnce ==
    \A g \in 1..ng :
        gs[g].kind = "then" =>
            LET src == gs[g].src IN
            /\ gs[g].nf + gs[g].nr <= 1
            /\ (gs[g].nf = 1 =>
                  done[src] /\ res[src].err = Nil /\ gs[g].arg = res[src].val)
            /\ (gs[g].nr = 1 =>
                  done[src] /\ res[src].err # Nil /\ gs[g].arg = res[src].err)
            /\ (gs[g].pc \in {"resolve", "close", "end"} /\ gs[g].user
                  => gs[g].nf + gs[g].nr = 1)

\* C10 happens: onFulfilled was invoked once on a source on which a second
\* call was made
C10_Witness ==
    \E g \in 1..ng :
        /\ gs[g].kind = "then"
        /\ gs[g].pc = "end"
        /\ gs[g].nf = 1
        /\ ncall[gs[g].src] >= 2

\* C11: a handler passed to Then is not invoked before that Then call has
\* returned to its caller.
C11_HandlerAfterThenReturns ==
    gs[0].pc = "ret" =>
        \A g \in 1..ng :
            gs[g].kind = "then" /\ gs[g].p = gs[0].p => gs[g].pc = "wait"

\* the goroutines of the Then / Catch / Finally calls made on promise p
Chained(p) ==
    {h \in 1..ng : gs[h].kind \in {"then", "finally"} /\ gs[h].src = p}

\* C12: in a chain p.Then(a).Then(b), also with Catch and Finally, b is not
\* started before the invocation of a is over (a has returned, or panicked),
\* whatever the scheduling.
C12_ChainOrder ==
    \A g \in 1..ng :
        gs[g].kind \in {"then", "finally"} =>
            \A h \in Chained(gs[g].p) :
                gs[h].pc # "wait" =>
                    /\ gs[g].pc = "end"
                    /\ gs[g].call # "none"
                    /\ done[gs[g].p]

\* C12 happens: both handlers of a chain of two were invoked
C12_Witness ==
    \E g \in 1..ng :
        /\ gs[g].kind = "then"
        /\ gs[g].nf + gs[g].nr = 1
        /\ \E h \in Chained(gs[g].p) : gs[h].nf + gs[h].nr = 1

\* what a handler that returns val makes of the derived promise, for a val
\* that is no promise
Outcome(val) == IF IsError(val) THEN ErrResult(val) ELSE ValResult(val)

\* C13: all Then calls on one promise, made before or after it settles, run
\* their applicable handler exactly once with the same value or reason, and
\* each derived promise gets the outcome of its own handler, whatever the
\* handlers of the sibling calls return.
C13_MultiThen ==
    \A p \in Promises :
        \A g \in Continuations(p) :
            /\ gs[g].nf + gs[g].nr <= 1
            /\ (gs[g].pc # "wait" =>
                  /\ done[p]
                  /\ gs[g].arg = (IF res[p].err # Nil THEN res[p].err ELSE res[p].val)
                  /\ (gs[g].user => gs[g].nf + gs[g].nr = 1)
                  /\ (res[p].err # Nil => gs[g].nf = 0)
                  /\ (res[p].err = Nil => gs[g].nr = 0))
            /\ (gs[g].pc = "end" /\ gs[g].call = "resolve" /\ ~IsPromise(gs[g].ret)
                  => res[gs[g].p] = Outcome(gs[g].ret))
            /\ \A h \in Continuations(p) :
                  g # h => /\ gs[g].p # gs[h].p
                           /\ (gs[g].pc # "wait" /\ gs[h].pc # "wait"
                                 => gs[g].arg = gs[h].arg)

\* C13 happens: two Then calls on one promise both ran onFulfilled with its
\* value; one handler returned an error, the other a value, and the derived
\* promises are rejected and fulfilled accordingly
C13_Witness ==
    \E g, h \in 1..ng :
        /\ g # h
        /\ gs[g].kind = "then" /\ gs[h].kind = "then"
        /\ gs[g].src = gs[h].src
        /\ gs[g].nf = 1 /\ gs[h].nf = 1
        /\ gs[g].arg = Val(1) /\ gs[h].arg = Val(1)
        /\ gs[g].pc = "end" /\ gs[h].pc = "end"
        /\ res[gs[g].p] = ErrResult(Err(1))
        /\ res[gs[h].p] = ValResult(Val(1))

\* C14: Then with a nil onFulfilled on a promise fulfilled with v derives a
\* promise fulfilled with v, and Then with a nil or missing onRejected on a
\* promise rejected with E derives a promise rejected with E.
C14_IdentityDefaults ==
    \A g \in 1..ng :
        gs[g].kind = "then" /\ ~gs[g].user /\ gs[g].call # "none" =>
            /\ gs[g].nf = 0 /\ gs[g].nr = 0
            /\ gs[g].ret = gs[g].arg
            /\ gs[g].pc \in {"close", "end"}
            /\ gs[g].won
            /\ res[gs[g].p] = res[gs[g].src]

\* C14 happens: a rejection went through a Then without onRejected
C14_Witness ==
    \E g \in 1..ng :
        /\ gs[g].kind = "then" /\ ~gs[g].user /\ gs[g].pc = "end"
        /\ res[gs[g].src] = ErrResult(Err(1))
        /\ res[gs[g].p] = ErrResult(Err(1))

\* C15: when the handler invoked by Then returns an error e, the derived
\* promise is rejected with e and no onFulfilled continuation of it runs.
C15_HandlerErrorRejects ==
    \A g \in 1..ng :
        (/\ gs[g].kind = "then" /\ gs[g].user
         /\ gs[g].call # "none" /\ IsError(gs[g].ret)) =>
            /\ gs[g].call = "resolve"
            /\ gs[g].pc \in {"close", "end"}
            /\ res[gs[g].p] = ErrResult(gs[g].ret)
            /\ \A h \in Continuations(gs[g].p) :
                  /\ gs[h].nf = 0
                  /\ (gs[h].pc # "wait" => gs[h].arg = gs[g].ret)

\* C15 happens: onFulfilled returned an error and the continuation's
\* onRejected got it
C15_Witness ==
    \E g, h \in 1..ng :
        /\ gs[g].kind = "then" /\ gs[g].nf = 1 /\ gs[g].ret = Err(1)
        /\ gs[g].pc = "end"
        /\ h \in Continuations(gs[g].p)
        /\ gs[h].nr = 1 /\ gs[h].arg = Err(1)

\* C16: when the onRejected handler of Then or Catch returns a value v that
\* is neither an error nor a promise, the derived promise is fulfilled with
\* v: its continuations run onFulfilled with v and never onRejected.
C16_Recovery ==
    \A g \in 1..ng :
        (/\ gs[g].kind = "then" /\ gs[g].nr = 1 /\ gs[g].call = "resolve"
         /\ ~IsError(gs[g].ret) /\ ~IsPromise(gs[g].ret)) =>
            /\ gs[g].pc \in {"close", "end"}
            /\ res[gs[g].p] = ValResult(gs[g].ret)
            /\ \A h \in Continuations(gs[g].p) :
                  /\ gs[h].nr = 0
                  /\ (gs[h].pc # "wait" =>
                        /\ gs[h].arg = gs[g].ret
                        /\ (gs[h].user => gs[h].nf = 1))

\* C16 happens: onRejected returned a plain value and the next onFulfilled
\* was called with it
C16_Witness ==
    \E g, h \in 1..ng :
        /\ gs[g].kind = "then" /\ gs[g].nr = 1 /\ gs[g].ret = Val(1)
        /\ h \in Continuations(gs[g].p)
        /\ gs[h].nf = 1 /\ gs[h].arg = Val(1)

\* C17: a panic in an executor or in an onFulfilled, onRejected or
\* onFinally handler ends in the goroutine's rejectOnPanic: the goroutine
\* rejects its promise and ends; the reason is the payload itself when it is
\* an error, and the error "panic: <payload>" otherwise.
C17_PanicRejects ==
    \A g \in 1..ng :
        gs[g].pan =>
            /\ gs[g].call = "panic"
            /\ gs[g].pc \in {"close", "end"}
            /\ (gs[g].pc = "close" => ENABLED closeDone(g))
            /\ (gs[g].kind \in {"then", "finally"} => gs[g].won)
            /\ (gs[g].won =>
                  res[gs[g].p] =
                      ErrResult(IF IsError(gs[g].v) THEN gs[g].v ELSE PanicErr(gs[g].v)))

\* C17 happens: an executor panicked with an error and a handler panicked
\* with a value that is no error, and both promises are rejected
C17_Witness ==
    \E g, h \in 1..ng :
        /\ gs[g].kind = "exec" /\ gs[g].pan /\ gs[g].won
        /\ gs[g].v = Err(1) /\ res[gs[g].p] = ErrResult(Err(1))
        /\ gs[h].kind \in {"then", "finally"} /\ gs[h].pan /\ gs[h].pc = "end"
        /\ gs[h].v = Val(1) /\ res[gs[h].p] = ErrResult(PanicErr(Val(1)))

\* C18: when onFinally is nil or returns anything but an error or a
\* rejected promise (nil, a plain value, a promise that is not rejected),
\* the promise returned by Finally gets the source's own outcome, never the
\* value onFinally returned.
C18_FinallyPassThrough ==
    \A g \in 1..ng :
        (/\ gs[g].kind = "finally"
         /\ gs[g].call # "none"
         /\ ~gs[g].pan
         /\ ~IsError(gs[g].ret)
         /\ (IsPromise(gs[g].ret) => res[gs[g].ret.n].err = Nil)) =>
            /\ gs[g].pc \in {"close", "end"}
            /\ gs[g].won
            /\ res[gs[g].p] = res[gs[g].src]

\* C18 happens: onFinally returned a plain value on a rejected source and
\* the derived promise is rejected with the source's reason
C18_Witness ==
    \E g \in 1..ng :
        /\ gs[g].kind = "finally" /\ gs[g].nf = 1 /\ gs[g].pc = "end"
        /\ gs[g].ret = Val(1)
        /\ res[gs[g].src] = ErrResult(Err(1))
        /\ res[gs[g].p] = ErrResult(Err(1))

\* C19: when onFinally returns an error E, or a promise that is settled and
\* rejected with reason E, the promise returned by Finally is rejected with
\* E, whether the source was fulfilled or rejected.
C19_FinallyOverrides ==
    [][\A g \in 1..ng :
          (/\ gs[g].kind = "finally"
           /\ gs[g].pc = "handler"
           /\ gs'[g].pc # "handler"
           /\ ~gs'[g].pan
           /\ \/ IsError(gs'[g].ret)
              \/ /\ IsPromise(gs'[g].ret)
                 /\ done[gs'[g].ret.n]
                 /\ res[gs'[g].ret.n].err # Nil) =>
              LET E == IF IsError(gs'[g].ret)
                          THEN gs'[g].ret
                          ELSE res[gs'[g].ret.n].err
              IN
              /\ gs'[g].call = "reject"
              /\ gs'[g].v = E
              /\ gs'[g].won
              /\ res'[gs[g].p] = ErrResult(E)]_vars

\* C19 happens: on a fulfilled source onFinally returned a rejected promise
\* and the derived promise is rejected with that promise's reason
C19_Witness ==
    \E g \in 1..ng :
        /\ gs[g].kind = "finally" /\ gs[g].pc = "end"
        /\ IsPromise(gs[g].ret)
        /\ res[gs[g].src].err = Nil
        /\ res[gs[g].ret.n] = ErrResult(Err(1))
        /\ gs[g].call = "reject"
        /\ res[gs[g].p] = ErrResult(Err(1))

\* C20: onFinally is invoked exactly once, after the source has settled,
\* fulfilled or rejected, and never while the source is pending.
C20_FinallyOnce ==
    \A g \in 1..ng :
        gs[g].kind = "finally" =>
            /\ gs[g].nf <= 1
            /\ gs[g].nr = 0
            /\ (~done[gs[g].src] => gs[g].pc = "wait" /\ gs[g].nf = 0)
            /\ (gs[g].pc = "wait" /\ done[gs[g].src]
                  => ENABLED finallyWait(g, TRUE))
            /\ (gs[g].pc # "wait" /\ gs[g].user => gs[g].nf = 1)

\* C20 happens: onFinally ran once on a fulfilled source and once on a
\* rejected one
C20_Witness ==
    \E g, h \in 1..ng :
        /\ gs[g].kind = "finally" /\ gs[h].kind = "finally"
        /\ gs[g].nf = 1 /\ gs[h].nf = 1
        /\ res[gs[g].src].err = Nil
        /\ res[gs[h].src].err # Nil

\* C21: Catch(h) behaves as Then(nil, h): h is called with the reason when
\* the source is rejected, it is never called when the source is fulfilled
\* or stays pending, and a fulfilled source's value passes unchanged to the
\* promise Catch returns.
C21_CatchIsThenNil ==
    \A g \in 1..ng :
        gs[g].kind = "then" /\ gs[g].nilF =>
            LET src == gs[g].src IN
            /\ gs[g].nf = 0
            /\ gs[g].nr <= 1
            /\ (~done[src] => gs[g].pc = "wait" /\ gs[g].nr = 0)
            /\ (gs[g].pc # "wait" /\ res[src].err = Nil =>
                  /\ ~gs[g].user
                  /\ gs[g].nr = 0
                  /\ (gs[g].call # "none" =>
                        /\ gs[g].ret = res[src].val
                        /\ res[gs[g].p] = res[src]))
            /\ (gs[g].pc # "wait" /\ res[src].err # Nil =>
                  /\ gs[g].arg = res[src].err
                  /\ (gs[g].user => gs[g].nr = 1))

\* C21 happens: one Catch got the reason of a rejected source, another let
\* the value of a fulfilled source through
C21_Witness ==
    \E g, h \in 1..ng :
        /\ gs[g].kind = "then" /\ gs[g].nilF
        /\ gs[g].nr = 1 /\ gs[g].arg = Err(1)
        /\ gs[h].kind = "then" /\ gs[h].nilF /\ gs[h].pc = "end"
        /\ res[gs[h].src] = ValResult(Val(1))
        /\ res[gs[h].p] = ValResult(Val(1))

\* C22: a rejection with reason E goes unchanged through chained Then calls
\* without onRejected: their onFulfilled is not invoked, the promise each
\* derives is rejected with E, and the onRejected handler of the next Then
\* or Catch is called with E.
C22_RejectionPropagates ==
    \A g \in 1..ng :
        (/\ gs[g].kind = "then"
         /\ gs[g].pc # "wait"
         /\ res[gs[g].src].err # Nil
         /\ ~gs[g].user) =>
            LET E == res[gs[g].src].err IN
            /\ gs[g].nf = 0 /\ gs[g].nr = 0
            /\ (gs[g].call # "none" => res[gs[g].p] = ErrResult(E))
            /\ \A h \in Chained(gs[g].p) :
                  /\ (gs[h].kind = "then" => gs[h].nf = 0)
                  /\ (gs[h].kind = "then" /\ gs[h].pc # "wait" =>
                        /\ gs[h].arg = E
                        /\ (gs[h].user => gs[h].nr = 1))

\* C22 happens: a rejection went through a Then without onRejected and
\* reached the handler of the Catch after it
C22_Witness ==
    \E g, h \in 1..ng :
        /\ gs[g].kind = "then" /\ ~gs[g].nilF /\ ~gs[g].user /\ gs[g].pc = "end"
        /\ res[gs[g].src] = ErrResult(Err(1))
        /\ h \in Continuations(gs[g].p)
        /\ gs[h].nilF /\ gs[h].nr = 1 /\ gs[h].arg = Err(1)

\* C29: the channel Done returns is open while the promise is pending and
\* closed once it is settled; it is closed exactly once; and whoever finds
\* it closed (a then, a Finally, a resolve that adopts) finds the outcome
\* written, once, before the close.
C29_DoneChannel ==
    /\ \A p \in Promises :
          /\ nclose[p] <= 1
          /\ nwrite[p] <= 1
          /\ (done[p] <=> nclose[p] = 1)
          /\ (done[p] <=> once[p] = "done")
          /\ (nwrite[p] = 0 => ~done[p] /\ once[p] = "new" /\ res[p] = ZeroResult)
          /\ (done[p] => nwrite[p] = 1)
    /\ \A g \in 1..ng :
          gs[g].kind \in {"then", "finally"} /\ gs[g].pc # "wait" =>
              done[gs[g].src] /\ nwrite[gs[g].src] = 1

\* C29 happens: a then got past the wait on a source that several calls
\* tried to settle, while its own promise is still open
C29_Witness ==
    \E g \in 1..ng :
        /\ gs[g].kind = "then" /\ gs[g].pc = "handler"
        /\ ncall[gs[g].src] >= 2 /\ nclose[gs[g].src] = 1
        /\ ~done[gs[g].p]

\* C30: when Resolve or Reject has returned, the promise it made is settled
\* and its channel closed: Reject(err) holds err and no value, Resolve(v)
\* holds v and no error for a v that is neither an error nor a promise, and
\* Resolve(x) for a promise x has returned only after x settled and holds
\* the outcome of x.
C30_ConstructorsSettled ==
    gs[0].pc = "body" /\ gs[0].call \in {"resolve", "reject"} =>
        LET p == gs[0].p
            v == gs[0].v
        IN
        /\ gs[0].won
        /\ done[p]
        /\ nwrite[p] = 1
        /\ (gs[0].call = "reject" => res[p] = ErrResult(v))
        /\ (gs[0].call = "resolve" /\ ~IsPromise(v) /\ ~IsError(v) =>
              res[p] = ValResult(v))
        /\ (gs[0].call = "resolve" /\ IsPromise(v) =>
              /\ done[v.n]
              /\ res[p] = res[v.n]
              /\ ~IsPromise(res[p].val))

\* C30 happens: Resolve(x) has returned with the rejection of a promise x
\* that was pending when Resolve was called
C30_Witness ==
    /\ gs[0].pc = "body" /\ gs[0].call = "resolve" /\ IsPromise(gs[0].v)
    /\ res[gs[0].p] = ErrResult(Err(1))
    /\ \E g \in 1..ng : gs[g].kind = "exec" /\ gs[g].p = gs[0].v.n /\ gs[g].won

\* C24: if the function given to Run returns (v, nil) the promise is
\* fulfilled with v and Get returns (v, nil); if it returns a non-nil error
\* the promise is rejected with it and Get returns the zero value and that
\* error.
C24_RunOutcome ==
    \A e \in 1..ng :
        (/\ gs[e].kind = "exec" /\ gs[e].typ # "none"
         /\ gs[e].call \in {"resolve", "reject"}
         /\ done[gs[e].p]) =>
            LET want == IF gs[e].call = "resolve"
                           THEN [val |-> gs[e].v, err |-> Nil]
                           ELSE [val |-> Zero, err |-> gs[e].v]
            IN
            /\ res[gs[e].p] = want
            /\ \A g \in Getters : Returned(g, "np.Done") => gs[g].out = want

C27_ConcurrentGets ==
    \A g, h \in Getters :
        (/\ gs[g].pc = "end" /\ gs[g].ctx \in {"background", "live"}
         /\ gs[h].pc = "end" /\ gs[h].ctx \in {"background", "live"}) =>
            /\ gs[g].out = gs[h].out
            /\ gs[g].out = res[gs[g].src]

\* C28: a Get with a context that is never canceled, or nil, does not return
\* before the promise is settled, and then returns the settled outcome.
C28_GetWaits ==
    \A g \in Getters :
        gs[g].pc = "end" /\ gs[g].ctx \in {"background", "live"} =>
            /\ done[gs[g].src]
            /\ gs[g].out.val = res[gs[g].src].val
            /\ gs[g].out.err = res[gs[g].src].err

\* C23: in the chain Resolve(n).Then(f).Catch(c).Finally(d), for an even n
\* f runs, c is not invoked and d runs after f; for an odd n c is invoked
\* with f's error after f has returned, and d runs after c; d runs exactly
\* once and last.
C23_ExampleChain ==
    LET n == res[1].val
        ran(g) == gs[g].nf + gs[g].nr
        ended(g) == gs[g].kind # "none" /\ gs[g].pc = "end"
    IN
    /\ \A g \in 1..3 : ran(g) <= 1
    /\ gs[1].nr = 0 /\ gs[2].nf = 0 /\ gs[3].nr = 0
    /\ (gs[1].pc # "wait" /\ gs[1].kind = "then" => gs[1].nf = 1 /\ gs[1].arg = n)
    /\ (gs[3].nf = 1 =>
          /\ ended(1) /\ ended(2)
          /\ gs[1].nf = 1)
    /\ (np >= 1 /\ ~Odd(n) =>
          /\ gs[2].nr = 0
          /\ (ended(1) => gs[1].ret = n /\ res[2] = ValResult(n)))
    /\ (np >= 1 /\ Odd(n) =>
          /\ (ended(1) => gs[1].ret = Err(n.n))
          /\ (gs[2].nr = 1 => ended(1) /\ gs[2].arg = Err(n.n))
          /\ (gs[3].nf = 1 => gs[2].nr = 1 /\ gs[2].ret = Nil))
    /\ (ended(0) =>
          /\ gs[3].nf = 1 /\ ended(3)
          /\ (Odd(n) => gs[2].nr = 1)
          /\ res[4] = IF Odd(n) THEN ValResult(Nil) ELSE ValResult(n))

\* C23 happens: for an odd n the chain has ended, c got f's error and d ran
C23_Witness ==
    /\ gs[0].pc = "end"
    /\ res[1] = ValResult(Val(3))
    /\ gs[2].nr = 1 /\ gs[2].arg = Err(3)
    /\ gs[3].nf = 1

\* C32: a promise rejected with a nil reason (Reject(nil), reject(nil)) is
\* settled with nil value and nil error, and Then treats it as fulfilled:
\* onFulfilled is called with nil, onRejected is not called.
C32_RejectNilFulfills ==
    /\ \A g \in 0..ng :
          gs[g].call = "reject" /\ gs[g].v = Nil /\ gs[g].won =>
              res[gs[g].p] = ZeroResult
    /\ \A h \in 1..ng :
          (/\ gs[h].kind = "then"
           /\ nwrite[gs[h].src] = 1
           /\ res[gs[h].src] = ZeroResult) =>
              /\ gs[h].nr = 0
              /\ (gs[h].pc # "wait" =>
                    /\ gs[h].arg = Nil
                    /\ (gs[h].user => gs[h].nf = 1))

\* C32 happens: an executor called reject(nil) and the onFulfilled of a Then
\* on its promise was called with nil
C32_Witness ==
    \E g \in 1..ng :
        /\ gs[g].call = "reject" /\ gs[g].v = Nil /\ gs[g].won
        /\ \E h \in Continuations(gs[g].p) :
              gs[h].user /\ gs[h].nf = 1 /\ gs[h].arg = Nil

\* C37: a settled promise holds a value with a nil error or a non-nil error
\* with a nil value, never both; the value it holds is never a promise and
\* never an error.
C37_ResultShape ==
    \A p \in Promises :
        /\ res[p].val = Nil \/ res[p].err = Nil
        /\ ~IsPromise(res[p].val) /\ ~IsError(res[p].val)
        /\ res[p].err = Nil \/ IsError(res[p].err)

\* C37 happens: one promise is fulfilled with a value, another is rejected
\* by a resolve that was given an error
C37_Witness ==
    \E p, q \in Promises :
        /\ done[p] /\ res[p] = ValResult(Val(1))
        /\ done[q] /\ res[q] = ErrResult(Err(1))
        /\ \E g \in 0..ng : gs[g].p = q /\ gs[g].won /\ gs[g].call = "resolve"
                              /\ gs[g].v = Err(1)

\* C38: the calls Then, Catch, Finally and Get, and every step of the
\* goroutines they start (waiting, running a handler that returns a value,
\* an error or a promise, or panics, settling), leave every promise but the
\* derived one as it was: no result is written, no channel closed and no
\* settle called on the source.
C38_SourceUntouched ==
    [][/\ \A g \in Goroutines :
            gs'[g] # gs[g] /\ gs'[g].kind \in {"then", "finally", "get"} =>
                \A q \in Promises \ {gs[g].p} : PromiseState(q)' = PromiseState(q)
       /\ (gs[0].pc = "body" /\ gs'[0].pc = "ret" =>
            \A q \in Promises : PromiseState(q)' = PromiseState(q))]_vars

\* C38 happens: a handler panicked, the derived promise is rejected and the
\* source still holds its value
C38_Witness ==
    \E g \in 1..ng :
        /\ gs[g].kind = "then" /\ gs[g].pan /\ gs[g].pc = "end"
        /\ res[gs[g].p].err # Nil
        /\ res[gs[g].src] = ValResult(Val(1))
        /\ ncall[gs[g].src] = 1

\* C35: every read of a result cell, by then on the source, by Finally on
\* the source and on a promise onFinally returned, and by resolve on the
\* promise it adopts, is made after that promise's channel was closed.
C35_ReadsAfterSignal ==
    [][\A g \in Goroutines :
          /\ (gs[g].pc = "wait" /\ gs'[g].pc # "wait" => done[gs[g].src])
          /\ (gs[g].pc = "resolve" /\ gs'[g].pc # "resolve" => done[gs[g].v.n])
          /\ (gs[g].kind = "finally" /\ gs[g].pc = "handler"
                /\ gs'[g].pc # "handler" /\ ~gs'[g].pan =>
                  /\ done[gs[g].src]
                  /\ (IsPromise(gs'[g].ret) => done[gs'[g].ret.n]))]_vars

\* C39: if the promise x that onFinally returns is pending when onFinally
\* returns, Finally settles its promise with the outcome of the source.
C39_FinallyIgnoresPending ==
    [][\A g \in Goroutines :
          (/\ gs[g].kind = "finally" /\ gs[g].pc = "handler"
           /\ gs'[g].pc # "handler" /\ ~gs'[g].pan
           /\ IsPromise(gs'[g].ret) /\ ~done[gs'[g].ret.n]) =>
              LET src == gs[g].src IN
              IF res[src].err # Nil
                  THEN gs'[g].call = "reject" /\ gs'[g].v = res[src].err
                  ELSE gs'[g].call = "resolve" /\ gs'[g].v = res[src].val]_vars

\* C36: under fair scheduling, once the source of a Then, Catch or Finally
\* is settled, the derived promise is eventually settled, unless its
\* goroutine is waiting for a promise the handler returned that is not
\* settled; a handler that panics leaves no derived promise pending.
C36_DerivedSettles ==
    \A g \in Goroutines \ {0} :
        (gs[g].kind \in {"then", "finally"} /\ done[gs[g].src])
            ~> (gs[g].kind \in {"then", "finally"}
                  /\ (done[gs[g].p] \/ AdoptsPending(g)))

\* C36 happens: a handler panicked and the derived promise is settled
C36_Witness ==
    \E g \in 1..ng :
        /\ gs[g].kind \in {"then", "finally"}
        /\ gs[g].pan
        /\ done[gs[g].p]
        /\ res[gs[g].p].err # Nil

\* C40: two promises made with New whose executors each resolve with the
\* other's promise never settle: both executors stay blocked inside resolve,
\* neither channel is closed, no result is written (the cycle is not turned
\* into a rejection), and no Then or Finally on either promise gets past
\* its wait.
C40_CycleNeverSettles ==
    /\ [](\A g1, g2 \in Goroutines :
            Cycle(g1, g2) /\ Untouched(g1, g2) =>
                /\ \A g \in {g1, g2} :
                      /\ ~done[gs[g].p]
                      /\ res[gs[g].p] = ZeroResult
                      /\ ~ENABLED (Run(g) \/ User(g))
                      /\ \A h \in Chained(gs[g].p) :
                            gs[h].pc = "wait" /\ gs[h].nf = 0 /\ gs[h].nr = 0)
    /\ [][\A g1, g2 \in Goroutines :
            Cycle(g1, g2) /\ Untouched(g1, g2) /\ NoOtherHolder(g1, g2) =>
                Cycle(g1, g2)' /\ Untouched(g1, g2)']_vars

\* C40 happens: the two executors block each other while a Then waits on
\* one of the promises
C40_Witness ==
    /\ Cycle(1, 2)
    /\ Untouched(1, 2)
    /\ \E h \in Chained(1) : gs[h].kind = "then" /\ gs[h].pc = "wait"
    /\ gs[0].pc = "body"

-----------------------------------------------------------------------------
(* Nested registration and the callers' stack.                             *)

\* the handler of goroutine g has been invoked
Invoked(g) == gs[g].nf + gs[g].nr > 0

\* C33: a handler registered with Then from inside a running handler, on a
\* promise that is already settled, is not invoked until the handler that
\* registered it has finished.
C33_InnerAfterOuter ==
    \A g \in 1..ng :
        gs[g].kind = "then" /\ gs[g].by # 0 /\ gs[g].late /\ Invoked(g)
            => gs[gs[g].by].pc # "handler"

\* C34: when the resolve or reject call that settles a promise returns to
\* its caller, no handler registered on that promise before the call has
\* been invoked (the caller g is still inside the call, past the close,
\* and goroutine h was started before the caller's goroutine was); when
\* Then returns on a promise that was settled when it was called, its
\* handler has not been invoked.
C34_CleanStack ==
    /\ \A g \in 1..ng : \A h \in 1..ng :
            /\ gs[g].pc = "unwind"
            /\ gs[h].kind = "then" /\ gs[h].src = gs[g].p /\ h < g
            => ~Invoked(h)
    /\ \A h \in 1..ng :
            /\ gs[0].pc = "ret"
            /\ gs[h].kind = "then" /\ gs[h].p = gs[0].p /\ gs[h].late
            => ~Invoked(h)

-----------------------------------------------------------------------------
(* Nil arguments.                                                          *)

\* C31: a nil function given to New, Run or Async, or a nil promise given to
\* Await, panics in the caller: the caller unwinds holding no promise, the
\* call has made no promise, started no goroutine and left every promise
\* and goroutine as it was (nothing is rejected), and it never returns.
C31_NilPanicsInCaller ==
    /\ [](gs[0].nilF => gs[0].pc = "panic" /\ gs[0].p = 0)
    /\ [](\A g \in 1..ng : gs[g].kind = "exec" => ~gs[g].nilF)
    /\ [][~gs[0].nilF /\ gs'[0].nilF
            => /\ np' = np /\ ng' = ng
               /\ \A q \in Promises : PromiseState(q)' = PromiseState(q)
               /\ \A g \in Goroutines \ {0} : gs'[g] = gs[g]]_vars
    /\ [][gs[0].nilF => gs'[0] = gs[0]]_vars

\* Await(ctx, nil) has panicked in a program that holds a promise of Run
\* whose executor has run
C31_Witness ==
    /\ gs[0].nilF
    /\ gs[0].pc = "panic"
    /\ gs[0].call = "Await"
    /\ \E g \in 1..ng : gs[g].kind = "exec" /\ gs[g].typ # "none" /\ done[gs[g].p]

=============================================================================
